---- MODULE Spec2Model ----
(***************************************************************************)
(* Model of pip_build.py: generate_keras_api_files (symbol discovery and   *)
(* the three emitter passes), grab_symbol_metadata (the export tree) and   *)
(* write_out_api_files (the __init__.py artifacts).                        *)
(*                                                                         *)
(* Python strings are sequences of one-character strings, so that split,   *)
(* join, startswith, "+" and sorted() are computed character by character. *)
(***************************************************************************)
EXTENDS Integers, Sequences, FiniteSets, TLC

VARIABLES
    registry,               \* per symbol: what the imported codebase declares
    pc,                     \* position in generate_keras_api_files
    examined,               \* (module, name) pairs the discovery loop has visited
    processed,              \* the set `processed` (ids of symbols seen)
    all_symbols,            \* the set `all_symbols`
    set_order,              \* iteration order of the set object all_symbols
    init_files_content,     \* tree of the current scheme (dict, insertion order)
    init_files_content_v1,  \* tree of the legacy scheme
    files,                  \* the filesystem: file path -> content
    written                 \* every makedirs + write, in order, tagged by pass

vars == <<registry, pc, examined, processed, all_symbols, set_order,
          init_files_content, init_files_content_v1, files, written>>

\* ------------------------------------------------------------------ bounds
NumSymbols == 3

Symbols == 1..NumSymbols

\* ----------------------------------------------------------------- strings
\* Code point of a character (Python compares strings by code point).
Ord(c) ==
    CASE c = " " -> 32 [] c = "." -> 46 [] c = "/" -> 47
      [] c = "1" -> 49 [] c = "2" -> 50
      [] c = "F" -> 70 [] c = "G" -> 71
      [] c = "_" -> 95
      [] c = "a" -> 97 [] c = "b" -> 98 [] c = "e" -> 101 [] c = "f" -> 102
      [] c = "h" -> 104 [] c = "i" -> 105 [] c = "k" -> 107 [] c = "m" -> 109
      [] c = "n" -> 110 [] c = "o" -> 111 [] c = "p" -> 112 [] c = "r" -> 114
      [] c = "s" -> 115 [] c = "t" -> 116 [] c = "v" -> 118 [] c = "y" -> 121

\* s < t for Python strings.
StrLess(s, t) ==
    \E i \in 1..Len(t) :
        /\ \A j \in 1..(i - 1) : j <= Len(s) /\ s[j] = t[j]
        /\ Len(s) >= i - 1
        /\ (Len(s) = i - 1 \/ Ord(s[i]) < Ord(t[i]))

\* s.startswith(prefix)
StartsWith(s, prefix) ==
    /\ Len(s) >= Len(prefix)
    /\ SubSeq(s, 1, Len(prefix)) = prefix

\* s.endswith("/")
EndsWithSlash(s) == Len(s) > 0 /\ s[Len(s)] = "/"

RECURSIVE SplitOn(_, _)
\* s.split(c) for a one-character separator c.
SplitOn(s, c) ==
    IF \A i \in 1..Len(s) : s[i] # c
    THEN <<s>>
    ELSE LET i == CHOOSE k \in 1..Len(s) :
                      s[k] = c /\ \A j \in 1..(k - 1) : s[j] # c
         IN  <<SubSeq(s, 1, i - 1)>> \o SplitOn(SubSeq(s, i + 1, Len(s)), c)

RECURSIVE JoinWith(_, _)
\* sep.join(parts)
JoinWith(parts, sep) ==
    IF Len(parts) = 0 THEN <<>>
    ELSE IF Len(parts) = 1 THEN parts[1]
    ELSE parts[1] \o sep \o JoinWith(Tail(parts), sep)

RECURSIVE OsPathJoin(_)
\* os.path.join(*parts), posixpath, for one or more parts.
OsPathJoin(parts) ==
    IF Len(parts) = 1 THEN parts[1]
    ELSE LET a == OsPathJoin(SubSeq(parts, 1, Len(parts) - 1))
             b == parts[Len(parts)]
         IN  IF StartsWith(b, <<"/">>) THEN b
             ELSE IF a = <<>> \/ EndsWithSlash(a) THEN a \o b
             ELSE a \o <<"/">> \o b

\* The set of orders in which a set can be iterated.
Perms(S) ==
    {f \in [1..Cardinality(S) -> S] : \A i, j \in 1..Cardinality(S) : f[i] = f[j] => i = j}

\* ---------------------------------------------------------------- literals
KERAS == <<"k", "e", "r", "a", "s">>
TF_ == <<"t", "f", "_">>
PACKAGE_NAME == TF_ \o KERAS
API == <<"a", "p", "i">>
V1 == <<"_", "v", "1">>
V2 == <<"_", "v", "2">>
INIT_PY == <<"_", "_", "i", "n", "i", "t", "_", "_", ".", "p", "y">>
INIT_FILE_HEADER == "AUTOGENERATED. DO NOT EDIT."
SYMBOLS_TO_SKIP == {"layer_test"}
FROM_ == <<"f", "r", "o", "m", " ">>
_IMPORT_ == <<" ", "i", "m", "p", "o", "r", "t", " ">>
_AS_ == <<" ", "a", "s", " ">>
DOT == <<".">>

\* ------------------------------------------------- the imported codebase
\* Export paths declared in the modelled codebases.
KERAS_A_F == KERAS \o <<".", "a", ".", "F">>
KERAS_A_G == KERAS \o <<".", "a", ".", "G">>
KERAS_A_B_F == KERAS \o <<".", "a", ".", "b", ".", "F">>
KERAS_A_B_G == KERAS \o <<".", "a", ".", "b", ".", "G">>
OTHER_A_B_F == <<"o", "t", "h", "e", "r", ".", "a", ".", "b", ".", "F">>
TF_KERAS_A_G == PACKAGE_NAME \o <<".", "a", ".", "G">>
KERAS__F == KERAS \o <<".", ".", "F">>
KERAS_A_ == KERAS \o <<".", "a", ".">>
SINGLE_F == <<"F">>
KERAS_API_F == KERAS \o DOT \o API \o <<".", "F">>

\* What one symbol of the codebase can be: a class or a function, decorated
\* with keras_export (then it carries its own two path sets) or not.
Sym(kind, decorated, names, names_v1) ==
    [kind |-> kind, decorated |-> decorated, names |-> names, names_v1 |-> names_v1]

\* Codebases whose export paths are sequences of two or more identifiers.
SymChoices ==
    { Sym("class", FALSE, {}, {}),
      Sym("class", TRUE, {KERAS_A_F}, {KERAS_A_F}),
      Sym("class", TRUE, {KERAS_A_B_G, KERAS_A_F}, {KERAS_A_G}),
      Sym("function", TRUE, {OTHER_A_B_F}, {}),
      Sym("class", TRUE, {TF_KERAS_A_G}, {KERAS_A_B_F}) }

\* Codebases that also declare a path with an empty segment, or a path of a
\* single segment.
AnyPathChoices ==
    { Sym("class", TRUE, {KERAS_A_F}, {KERAS_A_F}),
      Sym("class", TRUE, {KERAS__F}, {KERAS_A_F}),
      Sym("function", TRUE, {KERAS_A_B_G}, {KERAS_A_}),
      Sym("function", TRUE, {KERAS_A_G}, {SINGLE_F}) }

\* Codebases that export a symbol into the namespace keras.api, the namespace
\* whose flat directory is the parent of the two versioned roots.
ApiPathChoices ==
    { Sym("class", FALSE, {}, {}),
      Sym("class", TRUE, {KERAS_A_F}, {KERAS_A_F}),
      Sym("class", TRUE, {KERAS_API_F}, {KERAS_A_G}),
      Sym("function", TRUE, {KERAS_A_B_G}, {KERAS_API_F}) }

\* symbol.__name__ and symbol.__module__
SymName(s) == IF s % 2 = 1 THEN <<"F">> ELSE <<"G">>
SymModule(s) == <<"m">>

IsClass(s) == registry[s].kind = "class"

RECURSIVE Mro(_)
\* inspect.getmro(symbol)[1:] without `object`: class s extends the class
\* defined just before it, if there is one.
Mro(s) ==
    IF s > 1 /\ IsClass(s) /\ IsClass(s - 1) THEN <<s - 1>> \o Mro(s - 1) ELSE <<>>

\* The class whose decoration an attribute lookup on s finds (0: none).
Owner(s) ==
    LET chain == <<s>> \o Mro(s)
        hits == {i \in 1..Len(chain) : registry[chain[i]].decorated}
    IN  IF hits = {} THEN 0
        ELSE chain[CHOOSE i \in hits : \A j \in hits : i <= j]

\* hasattr(symbol, "_keras_api_names")
HasApiNames(s) == Owner(s) # 0
\* symbol._keras_api_names and symbol._keras_api_names_v1
ApiNames(s) == registry[Owner(s)].names
ApiNamesV1(s) == registry[Owner(s)].names_v1

has_same_metadata(a, b) ==
    /\ HasApiNames(a)
    /\ HasApiNames(b)
    /\ ApiNames(a) = ApiNames(b)
    /\ ApiNamesV1(a) = ApiNamesV1(b)

\* The (module, name) pairs that dir() gives over the imported modules: every
\* symbol under its own name in its defining module, symbol 1 once more where
\* another module imports it, and the last symbol once more under the name
\* "layer_test".
Occurrences == 1..(NumSymbols + 2)
OccSymbol(o) ==
    IF o <= NumSymbols THEN o ELSE IF o = NumSymbols + 1 THEN 1 ELSE NumSymbols
OccName(o) == IF o = NumSymbols + 2 THEN "layer_test" ELSE "own"

\* ------------------------------------------------- generate_keras_api_files
\* One iteration of `for module in modules: for name in dir(module)`. The two
\* other `continue`s of the body (unwrap raising ModuleNotFoundError, hasattr
\* raising) are taken by objects that are no symbol of the codebase; like a
\* skipped name, and like a symbol without _keras_api_names, they leave
\* all_symbols as it is.
\* Mutant: only the direct parent is compared.
ShouldSkip_ParentOnly(symbol) ==
    IsClass(symbol) /\ Len(Mro(symbol)) >= 1 /\ has_same_metadata(Mro(symbol)[1], symbol)

\* Mutant: only ancestors already admitted are compared.
ShouldSkip_AdmittedOnly(symbol) ==
    IsClass(symbol) /\ \E i \in 1..Len(Mro(symbol)) :
        Mro(symbol)[i] \in all_symbols /\ has_same_metadata(Mro(symbol)[i], symbol)

ShouldSkip(symbol) ==
    IsClass(symbol) /\ \E i \in 1..Len(Mro(symbol)) : has_same_metadata(Mro(symbol)[i], symbol)

Examine(o) ==
    /\ pc = "discover"
    /\ o \in Occurrences \ examined
    /\ examined' = examined \cup {o}
    /\ pc' = IF examined' = Occurrences THEN "grab" ELSE "discover"
    /\ LET symbol == OccSymbol(o) IN
       IF OccName(o) \in SYMBOLS_TO_SKIP \/ symbol \in processed
       THEN UNCHANGED <<processed, all_symbols>>
       ELSE /\ processed' = processed \cup {symbol}
            /\ all_symbols' =
                 IF HasApiNames(symbol) /\ ~ShouldSkip(symbol)
                 THEN all_symbols \cup {symbol}
                 ELSE all_symbols
    /\ UNCHANGED <<registry, set_order, init_files_content, init_files_content_v1,
                   files, written>>

\* ----------------------------------------------------- grab_symbol_metadata
\* init_files_content[path].append(entry), creating the list when the key is new.
\* The dict is a sequence of nodes in insertion order.
\* Mutant: the list of a key is started afresh on every insertion.
AddEntry_Reset(tree, path, entry) ==
    IF \E n \in 1..Len(tree) : tree[n].path = path
    THEN [n \in 1..Len(tree) |->
            IF tree[n].path = path
            THEN [tree[n] EXCEPT !.contents = <<entry>>]
            ELSE tree[n]]
    ELSE Append(tree, [path |-> path, contents |-> <<entry>>])

AddEntry(tree, path, entry) ==
    IF \E n \in 1..Len(tree) : tree[n].path = path
    THEN [n \in 1..Len(tree) |->
            IF tree[n].path = path
            THEN [tree[n] EXCEPT !.contents = Append(@, entry)]
            ELSE tree[n]]
    ELSE Append(tree, [path |-> path, contents |-> <<entry>>])

LeafEntry(symbol, export_name) == [symbol |-> symbol, export_name |-> export_name]
ModuleEntry(module, location) == [module |-> module, location |-> location]

RECURSIVE AddIntermediate_Short(_, _, _)
\* Mutant: the loop stops one prefix early (the leaf's parent is never linked).
AddIntermediate_Short(tree, export_modules, i) ==
    IF i >= Len(export_modules) - 2 THEN tree
    ELSE AddIntermediate_Short(
            AddEntry(tree,
                     OsPathJoin(SubSeq(export_modules, 1, i)),
                     ModuleEntry(export_modules[i + 1],
                                 JoinWith(SubSeq(export_modules, 1, i), DOT))),
            export_modules, i + 1)

RECURSIVE AddIntermediate(_, _, _)
\* for i in range(1, len(export_modules[:-1])), from i on.
AddIntermediate(tree, export_modules, i) ==
    IF i >= Len(export_modules) - 1 THEN tree
    ELSE AddIntermediate(
            AddEntry(tree,
                     OsPathJoin(SubSeq(export_modules, 1, i)),
                     ModuleEntry(export_modules[i + 1],
                                 JoinWith(SubSeq(export_modules, 1, i), DOT))),
            export_modules, i + 1)

\* The body of `for export_path in api_names`.
AddExportPath(tree, symbol, export_path) ==
    LET export_modules == SplitOn(export_path, ".")
        export_name == export_modules[Len(export_modules)]
        parent_path == OsPathJoin(SubSeq(export_modules, 1, Len(export_modules) - 1))
    IN  AddIntermediate(AddEntry(tree, parent_path, LeafEntry(symbol, export_name)),
                        export_modules, 1)

RECURSIVE AddSymbolPaths(_, _, _)
AddSymbolPaths(tree, symbol, paths) ==
    IF paths = <<>> THEN tree
    ELSE AddSymbolPaths(AddExportPath(tree, symbol, Head(paths)), symbol, Tail(paths))

\* The path set the selector picks.
SelectedNames(symbol, is_v1) == IF is_v1 THEN ApiNamesV1(symbol) ELSE ApiNames(symbol)

RECURSIVE GrabFrom(_, _, _)
GrabFrom(tree, symbols, path_order) ==
    IF symbols = <<>> THEN tree
    ELSE GrabFrom(AddSymbolPaths(tree, Head(symbols), path_order[Head(symbols)]),
                  Tail(symbols), path_order)

\* grab_symbol_metadata over the symbols in the order the set yields them, each
\* symbol's paths in the order path_order gives.
grab_symbol_metadata(symbols, path_order) == GrabFrom(<<>>, symbols, path_order)

\* os.path.join(*export_modules[:-1]) with no argument raises TypeError.
JoinRaises(symbols, is_v1) ==
    \E s \in symbols : \E p \in SelectedNames(s, is_v1) : Len(SplitOn(p, ".")) = 1

\* The orders in which each symbol's selected path set can be iterated.
PathOrders(symbols, is_v1) ==
    LET all == UNION {Perms(SelectedNames(s, is_v1)) : s \in symbols}
    IN  {f \in [symbols -> all] : \A s \in symbols : f[s] \in Perms(SelectedNames(s, is_v1))}

\* ------------------------------------------------------ write_out_api_files
\* module_path: "tf_" is prefixed whenever the key starts with "keras".
ModulePath(path) == IF StartsWith(path, KERAS) THEN TF_ \o path ELSE path

\* Mutant: the directory is prefixed whether or not an offset is given.
DirPath_AlwaysPrefixed(path, root_offset) ==
    IF StartsWith(path, KERAS) THEN TF_ \o path ELSE path

\* Mutant: the offset is spliced into the directory after its first segment.
DirPath_Spliced(path, root_offset) ==
    IF root_offset = <<>>
    THEN (IF StartsWith(path, KERAS) THEN TF_ \o path ELSE path)
    ELSE LET parts == SplitOn(path, "/")
         IN  JoinWith(<<parts[1]>> \o root_offset \o Tail(parts), <<"/">>)

\* path as reassigned on line 311: prefixed only when no root_offset is given.
DirPath(path, root_offset) ==
    IF StartsWith(path, KERAS) /\ root_offset = <<>> THEN TF_ \o path ELSE path

\* parts = [parts[0]] + root_offset + parts[1:]
ModuleLocationParts(module_path, root_offset) ==
    LET parts == SplitOn(module_path, "/")
    IN  <<parts[1]>> \o root_offset \o Tail(parts)

ModuleLocation(module_path, root_offset) ==
    JoinWith(ModuleLocationParts(module_path, root_offset), DOT)

LeafStatement(symbol, name) ==
    IF name = SymName(symbol)
    THEN FROM_ \o SymModule(symbol) \o _IMPORT_ \o SymName(symbol)
    ELSE FROM_ \o SymModule(symbol) \o _IMPORT_ \o SymName(symbol) \o _AS_ \o name

ModuleStatement(module_location, module) == FROM_ \o module_location \o _IMPORT_ \o module

RECURSIVE InitFileLines(_, _, _, _)
\* `for symbol_metadata in contents`, with modules_included as it stands.
InitFileLines(contents, module_path, root_offset, modules_included) ==
    IF contents = <<>> THEN <<>>
    ELSE LET e == Head(contents) IN
         IF "symbol" \in DOMAIN e
         THEN <<LeafStatement(e.symbol, e.export_name)>>
                \o InitFileLines(Tail(contents), module_path, root_offset, modules_included)
         ELSE IF e.module \notin modules_included
         THEN <<ModuleStatement(ModuleLocation(module_path, root_offset), e.module)>>
                \o InitFileLines(Tail(contents), module_path, root_offset,
                                 modules_included \cup {e.module})
         ELSE InitFileLines(Tail(contents), module_path, root_offset, modules_included)

RECURSIVE InsertSorted(_, _)
InsertSorted(line, lines) ==
    IF lines = <<>> THEN <<line>>
    ELSE IF StrLess(line, Head(lines)) THEN <<line>> \o lines
    ELSE <<Head(lines)>> \o InsertSorted(line, Tail(lines))

RECURSIVE Sorted(_)
\* sorted(init_file_lines)
Sorted(lines) ==
    IF lines = <<>> THEN <<>>
    ELSE InsertSorted(lines[Len(lines)], Sorted(SubSeq(lines, 1, Len(lines) - 1)))

\* What one iteration of `for path, contents in init_files_content.items()`
\* creates and writes.
NodeWrite(node, target_dir, root_offset, pass) ==
    LET path == DirPath(node.path, root_offset)
    IN  [pass |-> pass,
         node |-> node.path,
         dir |-> OsPathJoin(<<target_dir, path>>),
         init_path |-> OsPathJoin(<<target_dir, path, INIT_PY>>),
         lines |-> Sorted(InitFileLines(node.contents, ModulePath(node.path),
                                        root_offset, {}))]

\* The writes of one call, in the order of the dict's items.
write_out_api_files(tree, target_dir, root_offset, pass) ==
    [n \in 1..Len(tree) |-> NodeWrite(tree[n], target_dir, root_offset, pass)]

RECURSIVE Apply(_, _)
\* The filesystem after a sequence of writes: open(init_path, "w") truncates.
Apply(fs, writes) ==
    IF writes = <<>> THEN fs
    ELSE LET w == Head(writes) IN
         Apply((w.init_path :> [header |-> INIT_FILE_HEADER, lines |-> w.lines]) @@ fs,
               Tail(writes))

\* ------------------------------------------------- directories of the run
BUILD_DIR == <<"/", "b">>
package_directory == OsPathJoin(<<BUILD_DIR, PACKAGE_NAME>>)
\* pathlib.Path(package_directory).parent.resolve()
flat_target == BUILD_DIR
v1_path == OsPathJoin(<<package_directory, API, V1>>)
v2_path == OsPathJoin(<<package_directory, API, V2>>)
OFFSET_V1 == <<API, V1, KERAS>>
OFFSET_V2 == <<API, V2, KERAS>>

\* ------------------------------------ generate_keras_api_files, lines 235-262
\* init_files_content = grab_symbol_metadata(all_symbols, is_v1=False)
GrabV2 ==
    /\ pc = "grab"
    /\ IF JoinRaises(all_symbols, FALSE)
       THEN /\ pc' = "failed"
            /\ UNCHANGED <<set_order, init_files_content>>
       ELSE \E order \in Perms(all_symbols) :
            \E path_order \in PathOrders(all_symbols, FALSE) :
                /\ set_order' = order
                /\ init_files_content' = grab_symbol_metadata(order, path_order)
                /\ pc' = "grab_v1"
    /\ UNCHANGED <<registry, examined, processed, all_symbols, init_files_content_v1,
                   files, written>>

\* init_files_content_v1 = grab_symbol_metadata(all_symbols, is_v1=True)
GrabV1 ==
    /\ pc = "grab_v1"
    /\ IF JoinRaises(all_symbols, TRUE)
       THEN /\ pc' = "failed"
            /\ UNCHANGED init_files_content_v1
       ELSE \E path_order \in PathOrders(all_symbols, TRUE) :
                /\ init_files_content_v1' = grab_symbol_metadata(set_order, path_order)
                /\ pc' = "write_flat"
    /\ UNCHANGED <<registry, examined, processed, all_symbols, set_order,
                   init_files_content, files, written>>

Emit(tree, target_dir, root_offset, pass) ==
    LET writes == write_out_api_files(tree, target_dir, root_offset, pass)
    IN  /\ files' = Apply(files, writes)
        /\ written' = written \o writes

WriteFlat ==
    /\ pc = "write_flat"
    /\ Emit(init_files_content, flat_target, <<>>, "flat")
    /\ pc' = "write_v2"
    /\ UNCHANGED <<registry, examined, processed, all_symbols, set_order,
                   init_files_content, init_files_content_v1>>

WriteV2 ==
    /\ pc = "write_v2"
    /\ Emit(init_files_content, v2_path, OFFSET_V2, "v2")
    /\ pc' = "write_v1"
    /\ UNCHANGED <<registry, examined, processed, all_symbols, set_order,
                   init_files_content, init_files_content_v1>>

WriteV1 ==
    /\ pc = "write_v1"
    /\ Emit(init_files_content_v1, v1_path, OFFSET_V1, "v1")
    /\ pc' = "add_inits"
    /\ UNCHANGED <<registry, examined, processed, all_symbols, set_order,
                   init_files_content, init_files_content_v1>>

EmptyFile == [header |-> "", lines |-> <<>>]

\* "Add missing __init__ files in api dirs."
AddMissingInits ==
    /\ pc = "add_inits"
    /\ files' = (OsPathJoin(<<v2_path, INIT_PY>>) :> EmptyFile)
                @@ (OsPathJoin(<<v1_path, INIT_PY>>) :> EmptyFile)
                @@ (OsPathJoin(<<package_directory, API, INIT_PY>>) :> EmptyFile)
                @@ files
    /\ pc' = "done"
    /\ UNCHANGED <<registry, examined, processed, all_symbols, set_order,
                   init_files_content, init_files_content_v1, written>>

\* ---------------------------------------------------------- specifications
InitRun ==
    /\ pc = "discover"
    /\ examined = {}
    /\ processed = {}
    /\ all_symbols = {}
    /\ set_order = <<>>
    /\ init_files_content = <<>>
    /\ init_files_content_v1 = <<>>
    /\ files = <<>>
    /\ written = <<>>

Init ==
    /\ registry \in [Symbols -> SymChoices]
    /\ InitRun

InitAnyPath ==
    /\ registry \in [Symbols -> AnyPathChoices]
    /\ InitRun

InitApiPath ==
    /\ registry \in [Symbols -> ApiPathChoices]
    /\ InitRun

Next ==
    \/ \E o \in Occurrences : Examine(o)
    \/ GrabV2
    \/ GrabV1
    \/ WriteFlat
    \/ WriteV2
    \/ WriteV1
    \/ AddMissingInits

Spec == Init /\ [][Next]_vars

SpecApiPath == InitApiPath /\ [][Next]_vars

SpecAnyPath == InitAnyPath /\ [][Next]_vars

\* ------------------------------------------------------------------ claims
AfterGrabV2 == {"grab_v1", "write_flat", "write_v2", "write_v1", "add_inits", "done"}
AfterGrabV1 == {"write_flat", "write_v2", "write_v1", "add_inits", "done"}

\* The tree of a scheme, once grab_symbol_metadata has returned it.
TreeBuilt(is_v1) == IF is_v1 THEN pc \in AfterGrabV1 ELSE pc \in AfterGrabV2
TreeOf(is_v1) == IF is_v1 THEN init_files_content_v1 ELSE init_files_content

\* The key of the Namespace Node of a sequence of segments.
NodeKey(segments) == JoinWith(segments, <<"/">>)

\* Positions <<node, entry>> of the entries of the nodes keyed `key` that satisfy Test.
EntriesAt(tree, key, Test(_)) ==
    UNION { { <<n, i>> : i \in {j \in 1..Len(tree[n].contents) : Test(tree[n].contents[j])} }
            : n \in {m \in 1..Len(tree) : tree[m].path = key} }

LeafEntriesFor(tree, symbol, export_path) ==
    LET segs == SplitOn(export_path, ".")
        IsLeaf(e) == /\ "symbol" \in DOMAIN e
                     /\ e.symbol = symbol
                     /\ e.export_name = segs[Len(segs)]
    IN  EntriesAt(tree, NodeKey(SubSeq(segs, 1, Len(segs) - 1)), IsLeaf)

\* C1: once a tree is built, for every admitted symbol and every path of its
\* selected path set, the node of the path's containing namespace holds exactly
\* one Leaf entry binding the path's last segment to that symbol.
C1_PathCoverage ==
    \A is_v1 \in BOOLEAN :
        TreeBuilt(is_v1) =>
            \A symbol \in all_symbols : \A p \in SelectedNames(symbol, is_v1) :
                Cardinality(LeafEntriesFor(TreeOf(is_v1), symbol, p)) = 1

\* A tree in which one node holds the leaves of two symbols and a symbol has
\* leaves in two nodes.
C1_Witness ==
    /\ pc = "write_flat"
    /\ \E n \in 1..Len(init_files_content) :
         \E i, j \in 1..Len(init_files_content[n].contents) :
            LET c == init_files_content[n].contents IN
            /\ "symbol" \in DOMAIN c[i] /\ "symbol" \in DOMAIN c[j]
            /\ c[i].symbol # c[j].symbol
    /\ \E symbol \in all_symbols : Cardinality(ApiNames(symbol)) = 2

ModuleEntriesFor(tree, segs, i) ==
    LET IsModule(e) == "module" \in DOMAIN e /\ e.module = segs[i]
    IN  EntriesAt(tree, NodeKey(SubSeq(segs, 1, i - 1)), IsModule)

\* The (symbol, path) pairs of a scheme whose path runs through segs[1..i] and
\* goes on for at least one more segment.
PathsThrough(is_v1, segs, i) ==
    { sp \in UNION { {<<symbol, p>> : p \in SelectedNames(symbol, is_v1)} : symbol \in all_symbols } :
        LET q == SplitOn(sp[2], ".") IN
        Len(q) > i /\ SubSeq(q, 1, i) = SubSeq(segs, 1, i) }

\* C2 as stated: for every path [s1..sk] and every i in 1..k-1 the node of
\* [s1..s_{i-1}] (the empty root for i = 1) holds exactly one Module entry for si.
C2_AsStated ==
    \A is_v1 \in BOOLEAN :
        TreeBuilt(is_v1) =>
            \A symbol \in all_symbols : \A p \in SelectedNames(symbol, is_v1) :
                LET segs == SplitOn(p, ".") IN
                \A i \in 1..(Len(segs) - 1) :
                    Cardinality(ModuleEntriesFor(TreeOf(is_v1), segs, i)) = 1

\* C2 amended: for every path [s1..sk] and every i in 2..k-1 the node of
\* [s1..s_{i-1}] holds at least one Module entry for si, one for each
\* (symbol, path) pair that runs through [s1..si]; no node is keyed by the empty
\* root and no Module entry names s1.
C2_AncestorVisibility ==
    \A is_v1 \in BOOLEAN :
        TreeBuilt(is_v1) =>
            /\ \A n \in 1..Len(TreeOf(is_v1)) : TreeOf(is_v1)[n].path # <<>>
            /\ \A symbol \in all_symbols : \A p \in SelectedNames(symbol, is_v1) :
                LET segs == SplitOn(p, ".") IN
                /\ ModuleEntriesFor(TreeOf(is_v1), segs, 1) = {}
                /\ \A i \in 2..(Len(segs) - 1) :
                    /\ Cardinality(ModuleEntriesFor(TreeOf(is_v1), segs, i)) >= 1
                    /\ Cardinality(ModuleEntriesFor(TreeOf(is_v1), segs, i))
                         = Cardinality(PathsThrough(is_v1, segs, i))

\* A tree where two paths share the prefix keras.a and one of them goes two
\* levels deep, so that node keras holds two Module entries for a.
C2_Witness ==
    /\ pc = "write_flat"
    /\ Cardinality(ModuleEntriesFor(init_files_content, SplitOn(KERAS_A_B_G, "."), 2)) >= 2
    /\ Cardinality(ModuleEntriesFor(init_files_content, SplitOn(KERAS_A_B_G, "."), 3)) >= 1

\* B extends A: A is in B's ancestor chain.
Extends(B, A) == \E i \in 1..Len(Mro(B)) : Mro(B)[i] = A

\* Both carry path sets and the two pairs of sets are equal.
SamePathSets(A, B) ==
    /\ Owner(A) # 0 /\ Owner(B) # 0
    /\ registry[Owner(A)].names = registry[Owner(B)].names
    /\ registry[Owner(A)].names_v1 = registry[Owner(B)].names_v1

\* C3: when B extends A and both carry identical current and legacy path sets,
\* B is never admitted whatever else its ancestor chain holds, so at most one of
\* the two is; and once discovery is over A is admitted unless an ancestor of
\* its own excludes it in the same way.
C3_OverrideExclusion ==
    \A A, B \in Symbols :
        (Extends(B, A) /\ SamePathSets(A, B)) =>
            /\ B \notin all_symbols
            /\ \A is_v1 \in BOOLEAN : \A n \in 1..Len(TreeOf(is_v1)) :
                 \A i \in 1..Len(TreeOf(is_v1)[n].contents) :
                    LET e == TreeOf(is_v1)[n].contents[i] IN
                    "symbol" \in DOMAIN e => e.symbol # B
            /\ (pc # "discover" /\ ~\E Z \in Symbols : Extends(A, Z) /\ SamePathSets(Z, A))
                 => A \in all_symbols

\* Discovery is over; B declares the same sets as its grandparent A and other
\* sets than its parent; A is admitted and B is not.
C3_Witness ==
    /\ pc = "grab"
    /\ \E A, B \in Symbols :
        /\ Len(Mro(B)) = 2 /\ Mro(B)[2] = A
        /\ registry[B].decorated
        /\ SamePathSets(A, B)
        /\ ~SamePathSets(Mro(B)[1], B)
        /\ A \in all_symbols /\ B \notin all_symbols /\ B \in processed

\* The symbols that reach the loop body under a name that is not skipped.
Reachable == {OccSymbol(o) : o \in {x \in Occurrences : OccName(x) \notin SYMBOLS_TO_SKIP}}

\* The admitted set as a function of the codebase alone.
Admissible ==
    { symbol \in Reachable :
        /\ Owner(symbol) # 0
        /\ ~\E A \in Symbols : Extends(symbol, A) /\ SamePathSets(A, symbol) }

\* C9: whatever the order in which the (module, name) pairs are examined, a
\* symbol seen twice included, the admitted set at the end of discovery is the
\* same set, and no symbol outside it is admitted on the way.
C9_OrderIndependence ==
    /\ all_symbols \subseteq Admissible
    /\ pc # "discover" => all_symbols = Admissible

\* Discovery is over with a subclass left out and two symbols admitted.
C9_Witness ==
    /\ pc = "grab"
    /\ Cardinality(all_symbols) >= 2
    /\ \E B \in Symbols \ all_symbols : \E A \in all_symbols :
          Extends(B, A) /\ SamePathSets(A, B)

\* A set of symbols, and a set of paths, as the sequence in ascending order.
Ascending(S) == CHOOSE f \in Perms(S) : \A i, j \in 1..Cardinality(S) : i < j => f[i] < f[j]
AscendingPaths(S) ==
    CHOOSE f \in Perms(S) : \A i, j \in 1..Cardinality(S) : i < j => StrLess(f[i], f[j])

\* The tree and the artifacts of the run that iterates every set in ascending order.
ReferenceTree(is_v1) ==
    grab_symbol_metadata(Ascending(all_symbols),
                         [symbol \in all_symbols |-> AscendingPaths(SelectedNames(symbol, is_v1))])
ReferenceFiles ==
    Apply(Apply(Apply(<<>>,
        write_out_api_files(ReferenceTree(FALSE), flat_target, <<>>, "flat")),
        write_out_api_files(ReferenceTree(FALSE), v2_path, OFFSET_V2, "v2")),
        write_out_api_files(ReferenceTree(TRUE), v1_path, OFFSET_V1, "v1"))

\* C4 as stated: for a fixed admitted set the artifact paths and every
\* artifact's content after the three emitter passes are those of any other
\* iteration order of the symbol set and of the path sets.
C4_AsStated == pc = "add_inits" => files = ReferenceFiles

\* The path of an artifact relative to the target root of its pass.
RelativeTo(target_dir, init_path) == SubSeq(init_path, Len(target_dir) + 1, Len(init_path))

\* l2 and l1 are one text, or differ only in the offset "api._v2.keras" of l2
\* standing where l1 has "api._v1.keras".
SameButOffset(l2, l1) ==
    \/ l2 = l1
    \/ LET o2 == JoinWith(OFFSET_V2, DOT)
           o1 == JoinWith(OFFSET_V1, DOT)
       IN  \E k \in 1..Len(l2) :
             /\ k + Len(o2) - 1 <= Len(l2)
             /\ SubSeq(l2, k, k + Len(o2) - 1) = o2
             /\ l1 = SubSeq(l2, 1, k - 1) \o o1 \o SubSeq(l2, k + Len(o2), Len(l2))

LeafCount(node) ==
    Cardinality({i \in 1..Len(node.contents) : "symbol" \in DOMAIN node.contents[i]})
ModuleNames(node) ==
    {node.contents[i].module : i \in {j \in 1..Len(node.contents) : "module" \in DOMAIN node.contents[j]}}

EmittedAlike(tree) ==
    \* The n-th write of either call is the one made for the n-th node: equal
    \* relative paths node by node give equal sets of relative paths.
    \A n \in 1..Len(tree) :
        LET w2 == write_out_api_files(tree, v2_path, OFFSET_V2, "v2")[n]
            w1 == write_out_api_files(tree, v1_path, OFFSET_V1, "v1")[n]
            l2 == w2.lines
            l1 == w1.lines
            rel == RelativeTo(v2_path, w2.init_path)
        IN  /\ rel = RelativeTo(v1_path, w1.init_path)
            /\ rel = <<"/">> \o tree[n].path \o <<"/">> \o INIT_PY
            /\ Len(l2) = Len(l1)
            /\ \A j \in 1..Len(l2) : SameButOffset(l2[j], l1[j])
            /\ Cardinality({j \in 1..Len(l2) : l2[j] = l1[j]}) = LeafCount(tree[n])
            /\ Len(l2) = LeafCount(tree[n]) + Cardinality(ModuleNames(tree[n]))

\* C5: emitting one tree with offset api/_v2/keras and with offset api/_v1/keras
\* writes at the same paths relative to each target root, and at each path the
\* same number of statements: the leaf statements identical, the module
\* statements differing only in the offset segments of the import location.
C5_OffsetEquivalence ==
    \A is_v1 \in BOOLEAN : TreeBuilt(is_v1) => EmittedAlike(TreeOf(is_v1))

\* A tree with a node that holds a leaf and a module entry.
C5_Witness ==
    /\ pc = "write_v2"
    /\ \E n \in 1..Len(init_files_content) :
         LeafCount(init_files_content[n]) >= 1 /\ ModuleNames(init_files_content[n]) # {}

PassTree(pass) == IF pass = "v1" THEN init_files_content_v1 ELSE init_files_content
PassOffset(pass) == IF pass = "flat" THEN <<>> ELSE IF pass = "v2" THEN OFFSET_V2 ELSE OFFSET_V1
PassTarget(pass) == IF pass = "flat" THEN flat_target ELSE IF pass = "v2" THEN v2_path ELSE v1_path

\* The module names of the node a write was made for.
WrittenModules(w) ==
    UNION {ModuleNames(PassTree(w.pass)[n]) :
             n \in {m \in 1..Len(PassTree(w.pass)) : PassTree(w.pass)[m].path = w.node}}

\* "from <segments, dotted> import <module>"
ImportOf(segments, module) == FROM_ \o JoinWith(segments, DOT) \o _IMPORT_ \o module

\* The directory and the module statements of a write, the first segment of the
\* import location prefixed or not.
PlacedAndImported(w, dir_segments, prefix) ==
    LET segs == SplitOn(w.node, "/")
    IN  /\ w.dir = PassTarget(w.pass) \o <<"/">> \o JoinWith(dir_segments, <<"/">>)
        /\ \A m \in WrittenModules(w) :
             \E j \in 1..Len(w.lines) :
                w.lines[j] = ImportOf(<<prefix \o segs[1]>> \o PassOffset(w.pass) \o Tail(segs), m)

\* C6 as stated: for a node whose path begins with "keras", without an offset
\* the first segment is prefixed (keras -> tf_keras); with an offset the offset
\* is spliced in after the first segment and nothing is prefixed, neither the
\* directory nor the import locations of the module entries.
C6_AsStated ==
    \A k \in 1..Len(written) :
        LET w == written[k]
            segs == SplitOn(w.node, "/")
        IN  StartsWith(w.node, KERAS) =>
              IF w.pass = "flat"
              THEN PlacedAndImported(w, <<TF_ \o segs[1]>> \o Tail(segs), TF_)
              ELSE PlacedAndImported(w, segs, <<>>)

\* C6 amended: for a node whose path begins with "keras", without an offset
\* the first segment is prefixed in the directory and in the import locations;
\* with an offset the directory is the node's path unprefixed under the target
\* root, and the import locations keep the prefixed first segment with the
\* offset spliced in right after it.
C6_PathRewriting ==
    \A k \in 1..Len(written) :
        LET w == written[k]
            segs == SplitOn(w.node, "/")
        IN  StartsWith(w.node, KERAS) =>
              IF w.pass = "flat"
              THEN PlacedAndImported(w, <<TF_ \o segs[1]>> \o Tail(segs), TF_)
              ELSE PlacedAndImported(w, segs, TF_)

\* Node keras/a written with a module statement in the flat pass and in an
\* offset pass.
C6_Witness ==
    \E k, l \in 1..Len(written) :
        /\ written[k].pass = "flat" /\ written[l].pass = "v1"
        /\ written[k].node = KERAS \o <<"/", "a">> /\ written[l].node = written[k].node
        /\ WrittenModules(written[k]) # {} /\ WrittenModules(written[l]) # {}

\* C7 as stated: in every artifact the statements ascend by text and no text
\* occurs twice.
C7_AsStated ==
    \A k \in 1..Len(written) :
        \A j \in 1..(Len(written[k].lines) - 1) :
            StrLess(written[k].lines[j], written[k].lines[j + 1])

HasEmptySegment(export_path) ==
    \E i \in 1..Len(SplitOn(export_path, ".")) : SplitOn(export_path, ".")[i] = <<>>

\* C8 as stated: when an admitted symbol's selected path set holds a path with
\* an empty segment, the run fails: the tree of that scheme is never returned
\* and nothing is emitted from it.
C8_AsStated ==
    \A is_v1 \in BOOLEAN :
        (\E symbol \in all_symbols : \E p \in SelectedNames(symbol, is_v1) : HasEmptySegment(p))
            => ~TreeBuilt(is_v1)

\* C10 as stated: in each pass every module statement "from L import m" of a
\* node's artifact names, from the directory that contains the tf_keras
\* package, a directory in which the same pass writes a node artifact.
C10_AsStated ==
    \A k \in 1..Len(written) :
        LET w == written[k]
            L == ModuleLocationParts(ModulePath(w.node), PassOffset(w.pass))
        IN  \A m \in WrittenModules(w) :
              /\ \E j \in 1..Len(w.lines) : w.lines[j] = ImportOf(L, m)
              /\ \E l \in 1..Len(written) :
                    /\ written[l].pass = w.pass
                    /\ written[l].dir = BUILD_DIR \o <<"/">> \o JoinWith(L \o <<m>>, <<"/">>)

\* The content that the emitter gave to the artifact of written[k].
EmittedContent(k) == [header |-> INIT_FILE_HEADER, lines |-> written[k].lines]

\* written[k] is the last write that the three passes made to its file.
LastEmitted(k) ==
    \A l \in (k + 1)..Len(written) : written[l].init_path # written[k].init_path

\* C11 as stated: the three empty namespace artifacts are written after the
\* three emitter passes, and at the end of the run every node artifact that
\* the flat, current-version and legacy-version passes wrote still has the
\* content its pass gave it.
C11_AsStated ==
    /\ pc \in {"write_flat", "write_v2", "write_v1", "add_inits"} =>
          \A f \in DOMAIN files : files[f] # EmptyFile
    /\ pc = "done" =>
          \A k \in 1..Len(written) :
              LastEmitted(k) => files[written[k].init_path] = EmittedContent(k)

====
